---- MODULE Spec2Model ----
(***************************************************************************)
(* Bayesian regression with random Fourier features                        *)
(* (Bayesian-regression-with-random-features.ipynb).                       *)
(*                                                                         *)
(* The two classes of the notebook, RFFKernel and BR, are modelled as      *)
(* Python objects: a record of the attribute values together with the set  *)
(* attrs of the attributes assigned so far, so reading an attribute that   *)
(* was never assigned is an AttributeError, as in Python.                  *)
(*                                                                         *)
(* A numpy array is modelled by its shape and by the set of inputs its     *)
(* values were computed from (the input arrays, the random draws and the   *)
(* scalars, each tagged with the role it played): the arithmetic is        *)
(* deterministic, so two arrays the code computes by the same statements   *)
(* are equal exactly when these inputs are equal.  Shapes follow numpy's   *)
(* rules, so a shape mismatch is a ValueError where numpy raises one.      *)
(* Real scalars are fixed-point numbers in thousandths.                    *)
(***************************************************************************)
EXTENDS Integers, Sequences, FiniteSets, TLC

VARIABLES
    br,     \* the BR instance under test
    rff,    \* an RFFKernel instance used directly by a caller
    last,   \* the last call made: operation, arguments, outcome, returned value
    memo    \* the last calculate_posterior that returned, since the last add_data

vars == <<br, rff, last, memo>>
----------------------------------------------------------------------------
(* Bounds of the model *)

MaxN == 2          \* training and query sets have 1..MaxN rows
MaxEvals == 2      \* a minimize() run makes 1..MaxEvals objective evaluations
NumRff == 2        \* num_rff_samples of the instances under test

Rows == 1..MaxN
Dims == {1, 2}               \* feature dimensions seen by the stand-alone map
Draws == {1, 2}              \* distinguishable outcomes of the draw in add_data
QueryDraws == {1}            \* outcomes of the draws made while predicting
NumSamples == {5}            \* num_samples passed to sample_weights

\* log-space points (log gamma, log var_y) the minimizer probes: the start
\* point of optimise and one step away from it
StartPoint == <<0, 0>>

LogPoints == { StartPoint, <<1, 0>> }

\* how the numerics of one objective evaluation come out, <<inv_ok, det_pos>>:
\* inv_ok: np.linalg.inv succeeds; det_pos: np.linalg.det(cov) > 0
Numerics == { <<TRUE, TRUE>>, <<TRUE, FALSE>>, <<FALSE, TRUE>> }

\* Hyperparameters (gamma, var_y, var_w) a caller passes to
\* calculate_posterior, in thousandths; the first is the default triple.
HyperIn == { <<500, 200, 1000>>, <<1000, 1000, 1000>> }


----------------------------------------------------------------------------
(* Python objects and exceptions *)

HasAttr(o, a) == a \in o.attrs

SetAttr(o, a, v) == [o EXCEPT ![a] = v, !.attrs = @ \cup {a}]

NoVal == <<>>

Return(v) == [outcome |-> "ok", val |-> v]

Raise(e) == [outcome |-> e, val |-> NoVal]

\* one statement after the other: v is computed once, then F runs on it
Only(S) == CHOOSE x \in S : TRUE

Let(v, F(_)) == Only({ F(x) : x \in {v} })

----------------------------------------------------------------------------
(* numpy arrays: a shape and the inputs the values were computed from *)

Arr(s, t) == [shape |-> s, from |-> t]

\* an input: the array in role tag with contents i, or the scalar c in role tag
In(tag, i) == {<<tag, i>>}

BadArr == Arr(<<-1>>, {})

\* the value of an attribute that was never assigned (never read)
NoArr == Arr(<<>>, {})

IsBad(a) == a.shape = <<-1>>

\* the shape of np.dot on 1-D and 2-D operands
DotShape(sa, sb) ==
    IF sa = <<-1>> \/ sb = <<-1>> THEN <<-1>>
    ELSE IF Len(sa) = 2 /\ Len(sb) = 2
         THEN IF sa[2] = sb[1] THEN <<sa[1], sb[2]>> ELSE <<-1>>
    ELSE IF Len(sa) = 2 /\ Len(sb) = 1
         THEN IF sa[2] = sb[1] THEN <<sa[1]>> ELSE <<-1>>
    ELSE IF Len(sa) = 1 /\ Len(sb) = 2
         THEN IF sa[1] = sb[1] THEN <<sb[2]>> ELSE <<-1>>
    ELSE IF Len(sa) = 1 /\ Len(sb) = 1
         THEN IF sa[1] = sb[1] THEN <<>> ELSE <<-1>>
    ELSE <<-1>>

dot(a, b) ==
    IF DotShape(a.shape, b.shape) = <<-1>> THEN BadArr
    ELSE Arr(DotShape(a.shape, b.shape), a.from \cup b.from)

\* a.T
transpose(a) ==
    IF Len(a.shape) = 2 THEN Arr(<<a.shape[2], a.shape[1]>>, a.from) ELSE a

\* numpy broadcasting of two shapes
BroadcastShape(sa, sb) ==
    IF sa = <<-1>> \/ sb = <<-1>> \/ Len(sa) # Len(sb) THEN <<-1>>
    ELSE IF \A i \in 1..Len(sa) : sa[i] = sb[i] \/ sa[i] = 1 \/ sb[i] = 1
         THEN [i \in 1..Len(sa) |-> IF sa[i] = 1 THEN sb[i] ELSE sa[i]]
         ELSE <<-1>>

\* an elementwise binary operation (+, -, *) on two arrays
elementwise(a, b) ==
    IF BroadcastShape(a.shape, b.shape) = <<-1>> THEN BadArr
    ELSE Arr(BroadcastShape(a.shape, b.shape), a.from \cup b.from)

\* an elementwise operation of an array with the scalar c in role tag
scaled(a, tag, c) ==
    IF IsBad(a) THEN BadArr ELSE Arr(a.shape, a.from \cup In(tag, c))

\* np.append(np.ones((rows, 1)), a, axis=1)
append_ones(rows, a) ==
    IF IsBad(a) \/ Len(a.shape) # 2 THEN BadArr
    ELSE IF a.shape[1] # rows THEN BadArr
    ELSE Arr(<<rows, 1 + a.shape[2]>>, a.from)

\* np.eye(k)
eye(k) == Arr(<<k, k>>, {})

\* np.sum(a, axis=1) of a 2-D array
sum_axis1(a) ==
    IF IsBad(a) \/ Len(a.shape) # 2 THEN BadArr ELSE Arr(<<a.shape[1]>>, a.from)

\* np.exp of a log-space coordinate, in thousandths
Exp(l) ==
    CASE l = -2 -> 135
      [] l = -1 -> 368
      [] l = 0  -> 1000
      [] l = 1  -> 2718
      [] l = 2  -> 7389
      [] l = 3  -> 20086

----------------------------------------------------------------------------
(* class RFFKernel *)

RFFKernel(D) ==
    [ attrs       |-> {"D", "is_fitted"},
      D           |-> D,
      is_fitted   |-> FALSE,
      w_direction |-> NoArr,
      b_offset    |-> NoArr ]

\* fit draws w_direction (D, dimension) and b_offset (1, D); d is the
\* outcome of the two random draws.
fit(self, X, d) ==
    [self EXCEPT
        !.w_direction = Arr(<<self.D, X.shape[2]>>, In("w_direction", d)),
        !.b_offset    = Arr(<<1, self.D>>, In("b_offset", d)),
        !.is_fitted   = TRUE,
        !.attrs       = @ \cup {"w_direction", "b_offset"}]

\* Z = sqrt(2 / D) * cos(X.dot(w_direction.T) + b_offset); no fitted check
_transform(self, X) ==
    IF ~HasAttr(self, "w_direction") THEN Raise("AttributeError")
    ELSE
    Let(transpose(self.w_direction), LAMBDA Wt :
    Let(dot(X, Wt), LAMBDA Xw :
    Let(elementwise(Xw, self.b_offset), LAMBDA Xwb :
    Let(scaled(Xwb, "D", self.D), LAMBDA Z :
        IF IsBad(Z) THEN Raise("ValueError") ELSE Return(Z)))))

\* Variant of gram: the feature matrix itself, of shape (n, D), in place of
\* the (n_x, n_y) kernel matrix
gram_features(Zx, Zy, gamma) ==
    Let(scaled(Zx, "gamma", gamma), LAMBDA K :
        IF IsBad(K) THEN Raise("ValueError") ELSE Return(K))

\* K = Zx.dot(Zy.T) * sqrt(2 * gamma)
gram(Zx, Zy, gamma) ==
    Let(transpose(Zy), LAMBDA ZyT :
    Let(dot(Zx, ZyT), LAMBDA ZZ :
    Let(scaled(ZZ, "gamma", gamma), LAMBDA K :
        IF IsBad(K) THEN Raise("ValueError") ELSE Return(K))))

\* Yopt is <<>> for Y=None and <<Y>> otherwise
approx_kernel(self, X, Yopt, gamma) ==
    IF ~self.is_fitted THEN Raise("NotFittedError")
    ELSE
    Let(_transform(self, X), LAMBDA Zx :
        IF Zx.outcome # "ok" THEN Zx
        ELSE IF Yopt # <<>>
        THEN Let(_transform(self, Yopt[1]), LAMBDA Zy :
                 IF Zy.outcome # "ok" THEN Zy ELSE gram(Zx.val, Zy.val, gamma))
        ELSE gram(Zx.val, Zx.val, gamma))

----------------------------------------------------------------------------
(* def kl_divergence(mu, cov) *)

\* 0.5 * (-log(det(cov)) - n + trace(cov) + mu.T.mu).  det_pos says whether
\* np.linalg.det(cov) came out positive; np.log of a value <= 0 is -inf or
\* nan with a warning, never an exception.
kl_divergence(mu, cov, det_pos) ==
    IF det_pos THEN "finite" ELSE "nan_or_inf"

----------------------------------------------------------------------------
(* class BR *)

DefaultVarW == 1000    \* var_w=1 of calculate_posterior's signature

\* what a method leaves behind: the object, the outcome, the returned value
\* and how many matrix inversions it attempted
Done(self, v, n) == [self |-> self, outcome |-> "ok", val |-> v, n_inv |-> n]

Fail(self, e, n) == [self |-> self, outcome |-> e, val |-> NoVal, n_inv |-> n]

BR(num_rff_samples) ==
    [ attrs           |-> {"num_rff_samples", "is_fitted", "kernel", "post_k_xs", "pre_k_xs"},
      num_rff_samples |-> num_rff_samples,
      is_fitted       |-> FALSE,
      kernel          |-> RFFKernel(num_rff_samples),
      post_k_xs       |-> RFFKernel(num_rff_samples),
      pre_k_xs        |-> RFFKernel(num_rff_samples),
      X               |-> NoArr,
      Y               |-> NoArr,
      gamma           |-> 0,
      var_y           |-> 0,
      S               |-> NoArr,
      mu              |-> NoArr ]

add_data(self, X, Y, d) ==
    [self EXCEPT
        !.X         = X,
        !.Y         = Y,
        !.kernel    = fit(@, X, d),
        !.is_fitted = TRUE,
        !.attrs     = @ \cup {"X", "Y"}]

\* np.linalg.inv((phi.T).dot(phi) / self.var_y + pre_w)
precision(phi, var_y, pre_w) ==
    Let(transpose(phi), LAMBDA phiT :
    Let(dot(phiT, phi), LAMBDA PtP :
    Let(scaled(PtP, "var_y", var_y), LAMBDA Q :
        elementwise(Q, pre_w))))

\* self.S.dot(phi.T).dot(self.Y) / self.var_y
posterior_mean(S, phi, Y, var_y) ==
    Let(transpose(phi), LAMBDA phiT :
    Let(dot(S, phiT), LAMBDA SP :
    Let(dot(SP, Y), LAMBDA SPY :
        scaled(SPY, "var_y", var_y))))

\* the statements of calculate_posterior after the fitted check; inv_ok:
\* whether np.linalg.inv succeeds (it raises LinAlgError on a singular matrix)
solve_posterior(s1, K, var_w, inv_ok) ==
    Let(append_ones(s1.X.shape[1], K), LAMBDA phi :
    Let(scaled(eye(s1.X.shape[1] + 1), "var_w", var_w), LAMBDA pre_w :
    Let(precision(phi, s1.var_y, pre_w), LAMBDA A :
        IF IsBad(A) THEN Fail(s1, "ValueError", 0)
        ELSE IF ~inv_ok THEN Fail(s1, "LinAlgError", 1)
        ELSE
        Let(SetAttr(s1, "S", A), LAMBDA s2 :
        Let(posterior_mean(s2.S, phi, s2.Y, s2.var_y), LAMBDA mu :
            IF IsBad(mu) THEN Fail(s2, "ValueError", 1)
            ELSE Let(SetAttr(s2, "mu", mu), LAMBDA s3 :
                     Done(s3, <<s3.mu, s3.S, phi>>, 1)))))))

calculate_posterior(self, gamma, var_y, var_w, inv_ok) ==
    Let([self EXCEPT !.var_y = var_y, !.gamma = gamma,
                     !.attrs = @ \cup {"var_y", "gamma"}], LAMBDA s1 :
        IF ~s1.is_fitted THEN Fail(s1, "NotFittedError", 0)
        ELSE IF ~HasAttr(s1, "X") THEN Fail(s1, "AttributeError", 0)
        ELSE
        Let(approx_kernel(s1.kernel, s1.X, <<s1.X>>, s1.gamma), LAMBDA K :
            IF K.outcome # "ok" THEN Fail(s1, K.outcome, 0)
            ELSE solve_posterior(s1, K.val, var_w, inv_ok)))

\* Variational upper bound at x0 = (log gamma, log var_y)
_upper_bound(self, x0, inv_ok, det_pos) ==
    Let(calculate_posterior(self, Exp(x0[1]), Exp(x0[2]), DefaultVarW, inv_ok), LAMBDA r :
        IF r.outcome # "ok" THEN r
        ELSE
        Let(kl_divergence(r.val[1], r.val[2], det_pos), LAMBDA kl :
        Let(dot(r.val[3], r.val[1]), LAMBDA fit_y :
        Let(elementwise(r.self.Y, fit_y), LAMBDA resid :
            IF IsBad(resid) THEN Fail(r.self, "ValueError", r.n_inv)
            ELSE Done(r.self, kl, r.n_inv)))))

\* The objective evaluated at each of points on each of the objects of
\* selves, under each outcome o = <<inv_ok, det_pos>> of the numerics
evaluations(selves, points) ==
    { [before |-> s, x |-> x, r |-> _upper_bound(s, x, o[1], o[2])] :
      s \in selves, x \in points, o \in Numerics }

\* run, extended by the evaluation e
extend(run, e) ==
    [self     |-> e.r.self,
     outcome  |-> e.r.outcome,
     first    |-> IF run.points = {} THEN e.x ELSE run.first,
     x_last   |-> e.x,
     points   |-> run.points \cup {e.x},
     inverted |-> run.inverted \/ e.r.n_inv > 0,
     singular |-> e.r.outcome = "LinAlgError",
     invalid  |-> run.invalid \/ (e.r.outcome = "ok" /\ e.r.val # "finite")]

\* the runs that extend one of runs by at most k more evaluations; an
\* exception raised by an evaluation propagates out of minimize() and ends
\* the run
RECURSIVE continue(_, _)
continue(runs, k) ==
    IF k = 0 THEN runs
    ELSE
    Let({ q \in runs : q.outcome = "ok" }, LAMBDA going :
    Let(evaluations({ q.self : q \in going }, LogPoints), LAMBDA evals :
    Let({ extend(c[1], c[2]) : c \in { c \in going \X evals : c[2].before = c[1].self } },
        LAMBDA longer : runs \cup continue(longer, k - 1))))

\* scipy.optimize.minimize(self._upper_bound, [0, 0], method="Nelder-Mead"):
\* the runs the minimizer can make on self; the first evaluation is at the
\* start point [0, 0]
minimize(self) ==
    Let({ extend([self |-> self, outcome |-> "ok", points |-> {},
                  inverted |-> FALSE, invalid |-> FALSE], e) :
          e \in evaluations({self}, {StartPoint}) },
        LAMBDA started : continue(started, MaxEvals - 1))

\* Variant of optimise: without the is_fitted check
optimise_unguarded(self) ==
    UNION { { [self |-> run.self, outcome |-> run.outcome,
               val |-> IF run.outcome = "ok" THEN <<Exp(x[1]), Exp(x[2])>> ELSE NoVal,
               first |-> run.first, x_last |-> run.x_last, x |-> x,
               evaluated |-> TRUE, inverted |-> run.inverted,
               singular |-> run.singular, invalid |-> run.invalid] :
              x \in run.points } : run \in minimize(self) }

\* Variant of optimise: returning the stored self.gamma, self.var_y
optimise_stored(self) ==
    IF ~self.is_fitted
    THEN { [self |-> self, outcome |-> "NotFittedError", val |-> NoVal,
            first |-> NoVal, x_last |-> NoVal, x |-> NoVal,
            evaluated |-> FALSE, inverted |-> FALSE, singular |-> FALSE,
            invalid |-> FALSE] }
    ELSE UNION { { [self |-> run.self, outcome |-> run.outcome,
                    val |-> IF run.outcome = "ok"
                            THEN <<run.self.gamma, run.self.var_y>> ELSE NoVal,
                    first |-> run.first, x_last |-> run.x_last, x |-> x,
                    evaluated |-> TRUE, inverted |-> run.inverted,
                    singular |-> run.singular, invalid |-> run.invalid] :
                   x \in run.points } : run \in minimize(self) }

\* the outcomes of optimise: for each run of the minimizer and each point x
\* it may report as result.x (one of those it evaluated), np.exp(result.x)
optimise(self) ==
    IF ~self.is_fitted
    THEN { [self |-> self, outcome |-> "NotFittedError", val |-> NoVal,
            first |-> NoVal, x_last |-> NoVal, x |-> NoVal,
            evaluated |-> FALSE, inverted |-> FALSE, singular |-> FALSE,
            invalid |-> FALSE] }
    ELSE UNION { { [self |-> run.self, outcome |-> run.outcome,
                    val |-> IF run.outcome = "ok" THEN <<Exp(x[1]), Exp(x[2])>> ELSE NoVal,
                    first |-> run.first, x_last |-> run.x_last, x |-> x,
                    evaluated |-> TRUE, inverted |-> run.inverted,
                    singular |-> run.singular, invalid |-> run.invalid] :
                   x \in run.points } : run \in minimize(self) }

\* np.random.multivariate_normal(self.mu.squeeze(), self.S, num_samples)
sample_weights(self, num_samples, d) ==
    IF ~HasAttr(self, "mu") \/ ~HasAttr(self, "S") THEN Fail(self, "AttributeError", 0)
    ELSE IF Len(self.mu.shape) = 1 /\ self.S.shape = <<self.mu.shape[1], self.mu.shape[1]>>
    THEN Done(self, Arr(<<num_samples, self.mu.shape[1]>>,
                        self.mu.from \cup self.S.from \cup In("sample", d)), 0)
    ELSE Fail(self, "ValueError", 0)

\* the design matrix of new points xs against the training inputs, built
\* with the feature map k, which the caller has just re-fitted on xs
design_xs(self, k, xs) ==
    IF ~HasAttr(self, "X") \/ ~HasAttr(self, "gamma") THEN Raise("AttributeError")
    ELSE
    Let(approx_kernel(k, xs, <<self.X>>, self.gamma), LAMBDA K :
        IF K.outcome # "ok" THEN K
        ELSE Let(append_ones(xs.shape[1], K.val), LAMBDA phi_xs :
                 IF IsBad(phi_xs) THEN Raise("ValueError") ELSE Return(phi_xs)))

\* Variant of post_one_step: re-fitting self.kernel instead of self.post_k_xs
post_one_step_on_kernel(self, xs, weights, d) ==
    Let([self EXCEPT !.kernel = fit(@, xs, d)], LAMBDA s1 :
    Let(design_xs(s1, s1.kernel, xs), LAMBDA phi :
        IF phi.outcome # "ok" THEN Fail(s1, phi.outcome, 0)
        ELSE
        Let(transpose(weights), LAMBDA wT :
        Let(dot(phi.val, wT), LAMBDA ys :
            IF IsBad(ys) THEN Fail(s1, "ValueError", 0) ELSE Done(s1, ys, 0)))))

post_one_step(self, xs, weights, d) ==
    Let([self EXCEPT !.post_k_xs = fit(@, xs, d)], LAMBDA s1 :
    Let(design_xs(s1, s1.post_k_xs, xs), LAMBDA phi :
        IF phi.outcome # "ok" THEN Fail(s1, phi.outcome, 0)
        ELSE
        Let(transpose(weights), LAMBDA wT :
        Let(dot(phi.val, wT), LAMBDA ys :
            IF IsBad(ys) THEN Fail(s1, "ValueError", 0) ELSE Done(s1, ys, 0)))))

\* (np.sum(pred_phi_xs.dot(self.S) * pred_phi_xs, axis = 1) + self.var_y) ** 0.5
pred_stdev(phi, S, var_y) ==
    Let(dot(phi, S), LAMBDA PS :
    Let(elementwise(PS, phi), LAMBDA q :
    Let(sum_axis1(q), LAMBDA v :
        scaled(v, "var_y", var_y))))

\* Variant of pred_one_step: re-fitting self.kernel instead of self.pre_k_xs
pred_one_step_on_kernel(self, xs, d) ==
    Let([self EXCEPT !.kernel = fit(@, xs, d)], LAMBDA s1 :
    Let(design_xs(s1, s1.kernel, xs), LAMBDA phi :
        IF phi.outcome # "ok" THEN Fail(s1, phi.outcome, 0)
        ELSE IF ~HasAttr(s1, "mu") THEN Fail(s1, "AttributeError", 0)
        ELSE
        Let(dot(phi.val, s1.mu), LAMBDA mu :
            IF IsBad(mu) THEN Fail(s1, "ValueError", 0)
            ELSE IF ~HasAttr(s1, "S") \/ ~HasAttr(s1, "var_y")
            THEN Fail(s1, "AttributeError", 0)
            ELSE Let(pred_stdev(phi.val, s1.S, s1.var_y), LAMBDA stdev :
                     IF IsBad(stdev) THEN Fail(s1, "ValueError", 0)
                     ELSE Done(s1, <<mu, stdev>>, 0)))))

pred_one_step(self, xs, d) ==
    Let([self EXCEPT !.pre_k_xs = fit(@, xs, d)], LAMBDA s1 :
    Let(design_xs(s1, s1.pre_k_xs, xs), LAMBDA phi :
        IF phi.outcome # "ok" THEN Fail(s1, phi.outcome, 0)
        ELSE IF ~HasAttr(s1, "mu") THEN Fail(s1, "AttributeError", 0)
        ELSE
        Let(dot(phi.val, s1.mu), LAMBDA mu :
            IF IsBad(mu) THEN Fail(s1, "ValueError", 0)
            ELSE IF ~HasAttr(s1, "S") \/ ~HasAttr(s1, "var_y")
            THEN Fail(s1, "AttributeError", 0)
            ELSE Let(pred_stdev(phi.val, s1.S, s1.var_y), LAMBDA stdev :
                     IF IsBad(stdev) THEN Fail(s1, "ValueError", 0)
                     ELSE Done(s1, <<mu, stdev>>, 0)))))

----------------------------------------------------------------------------
(* Inputs *)

\* what the stand-alone map is fitted on and applied to
MapInputs == { Arr(<<n, p>>, In("X", 1)) : n \in Rows, p \in Dims }

\* the data provider hands over an (n, p) matrix and a length-n vector
DataInputs == { <<Arr(<<n, 1>>, In("X", 1)), Arr(<<n>>, In("Y", 1))>> : n \in Rows }

XsInputs == { Arr(<<m, 1>>, In("xs", 1)) : m \in Rows }

WeightInputs == { Arr(<<1, N>>, In("weights", 1)) : N \in 2..(MaxN + 1) }

\* what happened inside the call: evaluated: the objective was evaluated;
\* inverted: a matrix inversion was attempted; singular: an inversion was
\* singular; invalid: an evaluation returned nan or inf; repeated: the
\* arguments are those of memo; reads: there were reads since memo
NoEnv == [evaluated |-> FALSE, inverted |-> FALSE, singular |-> FALSE, invalid |-> FALSE,
          repeated |-> FALSE, reads |-> FALSE]

Call(op, args, r, env) ==
    [op |-> op, args |-> args, outcome |-> r.outcome, ret |-> r.val, env |-> env]

NoMemo == [valid |-> FALSE, reads |-> FALSE, args |-> NoVal, ret |-> NoVal]

Read(m) == IF m.valid THEN [m EXCEPT !.reads = TRUE] ELSE m

----------------------------------------------------------------------------
(* A caller using an RFFKernel directly *)

RffFit ==
    \E X \in MapInputs, d \in Draws :
        /\ rff' = fit(rff, X, d)
        /\ last' = Call("fit", <<X>>, Return(NoVal), NoEnv)
        /\ UNCHANGED <<br, memo>>

RffTransform ==
    \E X \in MapInputs :
        /\ last' = Call("_transform", <<X>>, _transform(rff, X), NoEnv)
        /\ UNCHANGED <<br, rff, memo>>

RffApproxKernel ==
    \E X \in MapInputs, Yopt \in {<<>>} \cup { <<Y>> : Y \in MapInputs }, gamma \in {500, 1000} :
        /\ last' = Call("approx_kernel", <<X, Yopt, gamma>>,
                        approx_kernel(rff, X, Yopt, gamma), NoEnv)
        /\ UNCHANGED <<br, rff, memo>>

----------------------------------------------------------------------------
(* A caller using a BR instance *)

AddData ==
    \E XY \in DataInputs, d \in Draws :
        /\ br' = add_data(br, XY[1], XY[2], d)
        /\ last' = Call("add_data", <<>>, Return(NoVal), NoEnv)
        /\ memo' = NoMemo
        /\ UNCHANGED rff

CalculatePosterior ==
    \E h \in HyperIn, inv_ok \in BOOLEAN :
      \E r \in { calculate_posterior(br, h[1], h[2], h[3], inv_ok) } :
        /\ br' = r.self
        /\ last' = Call("calculate_posterior", h, r,
                        [evaluated |-> FALSE, inverted |-> r.n_inv > 0,
                         singular |-> ~inv_ok /\ r.n_inv > 0, invalid |-> FALSE,
                         repeated |-> memo.valid /\ memo.args = h,
                         reads |-> memo.reads])
        /\ memo' = IF r.outcome = "ok"
                   THEN [valid |-> TRUE, reads |-> FALSE, args |-> h, ret |-> r.val]
                   ELSE memo
        /\ UNCHANGED rff

Optimise ==
    \E r \in optimise(br) :
        /\ br' = r.self
        /\ last' = Call("optimise", <<r.first, r.x_last, r.x>>, r,
                        [evaluated |-> r.evaluated, inverted |-> r.inverted,
                         singular |-> r.singular, invalid |-> r.invalid,
                         repeated |-> FALSE, reads |-> FALSE])
        /\ memo' = memo
        /\ UNCHANGED rff

SampleWeights ==
    \E k \in NumSamples, d \in QueryDraws :
      \E r \in { sample_weights(br, k, d) } :
        /\ br' = r.self
        /\ last' = Call("sample_weights", <<k>>, r, NoEnv)
        /\ memo' = Read(memo)
        /\ UNCHANGED rff

PostOneStep ==
    \E xs \in XsInputs, weights \in WeightInputs, d \in QueryDraws :
      \E r \in { post_one_step(br, xs, weights, d) } :
        /\ br' = r.self
        /\ last' = Call("post_one_step", <<>>, r, NoEnv)
        /\ memo' = Read(memo)
        /\ UNCHANGED rff

PredOneStep ==
    \E xs \in XsInputs, d \in QueryDraws :
      \E r \in { pred_one_step(br, xs, d) } :
        /\ br' = r.self
        /\ last' = Call("pred_one_step", <<>>, r, NoEnv)
        /\ memo' = Read(memo)
        /\ UNCHANGED rff

----------------------------------------------------------------------------
(* Specifications *)

Init ==
    /\ br = BR(NumRff)
    /\ rff = RFFKernel(NumRff)
    /\ last = [op |-> "__init__", args |-> <<>>, outcome |-> "ok",
               ret |-> NoVal, env |-> NoEnv]
    /\ memo = NoMemo

Next ==
    \/ AddData
    \/ CalculatePosterior
    \/ Optimise
    \/ SampleWeights
    \/ PostOneStep
    \/ PredOneStep

Spec == Init /\ [][Next]_vars

NextRFF == RffFit \/ RffTransform \/ RffApproxKernel

SpecRFF == Init /\ [][NextRFF]_vars

----------------------------------------------------------------------------
(* Vocabulary of the properties *)

\* the value of attribute a of o, if it was ever assigned
Field(o, a) == IF HasAttr(o, a) THEN <<o[a]>> ELSE <<>>

RegressorState(o) == [a \in {"X", "Y", "gamma", "var_y", "mu", "S"} |-> Field(o, a)]

HyperState(o) == [a \in {"gamma", "var_y", "mu", "S"} |-> Field(o, a)]

\* a posterior is stored
PosteriorReady == HasAttr(br, "mu") /\ HasAttr(br, "S")

Reads == {"pred_one_step", "post_one_step", "sample_weights"}

\* the hyperparameter triples a posterior can have been computed with
Hypers == HyperIn \cup { <<Exp(x[1]), Exp(x[2]), DefaultVarW>> : x \in LogPoints }

\* the stored posterior is what calculate_posterior computes from the
\* currently stored X, Y and training map, for some hyperparameters
PosteriorOfCurrentData ==
    /\ PosteriorReady
    /\ \E h \in Hypers :
         Let(calculate_posterior(br, h[1], h[2], h[3], TRUE), LAMBDA r :
             r.outcome = "ok" /\ r.val[1] = br.mu /\ r.val[2] = br.S)

\* the stored posterior was computed with the stored gamma and var_y
PosteriorOfStoredHypers ==
    /\ PosteriorReady
    /\ HasAttr(br, "gamma") /\ HasAttr(br, "var_y")
    /\ In("gamma", br.gamma) \subseteq (br.mu.from \cap br.S.from)
    /\ In("var_y", br.var_y) \subseteq (br.mu.from \cap br.S.from)

----------------------------------------------------------------------------
(* Properties *)

\* C1 (as claimed): while no posterior has been computed, pred_one_step and
\* sample_weights fail with NotFittedError, with no other failure and with no
\* result.
C1_ReadsBeforePosteriorRaiseNotFitted ==
    (last.op \in {"pred_one_step", "sample_weights"} /\ ~PosteriorReady)
        => last.outcome = "NotFittedError"

\* C2: on a BR on which add_data was never called, calculate_posterior and
\* optimise fail with NotFittedError before any objective evaluation, any
\* matrix inversion and any posterior is made.
C2_UnfittedRaisesBeforeComputing ==
    (last.op \in {"calculate_posterior", "optimise"} /\ ~br.is_fitted)
        => /\ last.outcome = "NotFittedError"
           /\ ~last.env.evaluated
           /\ ~last.env.inverted
           /\ ~HasAttr(br, "mu") /\ ~HasAttr(br, "S")

\* C2 witness: optimise has failed on a BR without data on which
\* calculate_posterior had been called too.
C2_Witness ==
    /\ last.op = "optimise" /\ last.outcome = "NotFittedError"
    /\ ~br.is_fitted /\ HasAttr(br, "gamma")

\* C3 (as claimed): _transform and approx_kernel raise NotFittedError on a map
\* that was never fitted, and never raise it once fit has been called.
C3_MapRaisesNotFittedIffUnfitted ==
    (last.op \in {"_transform", "approx_kernel"})
        => (last.outcome = "NotFittedError" <=> ~rff.is_fitted)

C5_Frame ==
    [][ /\ last'.op \in Reads
            => RegressorState(br') = RegressorState(br) /\ br'.kernel = br.kernel
        /\ last'.op = "add_data" => HyperState(br') = HyperState(br)
        /\ RegressorState(br') # RegressorState(br)
            => last'.op \in {"add_data", "calculate_posterior", "optimise"} ]_vars

\* C5 witness: post_one_step has returned on a regressor with a posterior,
\* after pred_one_step had been called too.
C5_Witness ==
    /\ last.op = "post_one_step" /\ last.outcome = "ok"
    /\ br.pre_k_xs.is_fitted /\ br.post_k_xs.is_fitted
    /\ PosteriorReady

\* C6: when optimise returns, the first evaluation was at (0, 0), the stored
\* gamma, var_y, mu, S are those written by the evaluation at the last point
\* the minimizer evaluated, and the returned pair is the exponential of the
\* point the minimizer reports.
C6_OptimiseLeavesLastEvaluation ==
    (last.op = "optimise" /\ last.outcome = "ok")
        => /\ last.args[1] = StartPoint
           /\ br.gamma = Exp(last.args[2][1]) /\ br.var_y = Exp(last.args[2][2])
           /\ Let(calculate_posterior(br, Exp(last.args[2][1]), Exp(last.args[2][2]),
                                      DefaultVarW, TRUE),
                  LAMBDA r : r.outcome = "ok" /\ r.self = br)
           /\ last.ret = <<Exp(last.args[3][1]), Exp(last.args[3][2])>>

\* C6 witness: optimise has returned a pair that differs from the stored
\* gamma, var_y.
C6_Witness ==
    /\ last.op = "optimise" /\ last.outcome = "ok"
    /\ last.ret # <<br.gamma, br.var_y>>

\* C7: a calculate_posterior that returns, called with the arguments of the
\* previous calculate_posterior that returned, with no add_data in between,
\* returns and stores the same (mu, S), whatever was read in between; and
\* calculate_posterior never changes the training map.
C7_CalculatePosteriorIdempotent ==
    [][ /\ (last'.op = "calculate_posterior" /\ last'.outcome = "ok"
              /\ memo.valid /\ memo.args = last'.args)
            => /\ last'.ret = memo.ret
               /\ br'.mu = memo.ret[1] /\ br'.S = memo.ret[2]
        /\ last'.op = "calculate_posterior" => br'.kernel = br.kernel ]_vars

\* C7 witness: calculate_posterior has returned for the second time with the
\* same arguments, with reads in between.
C7_Witness ==
    /\ last.op = "calculate_posterior" /\ last.outcome = "ok"
    /\ last.env.repeated /\ last.env.reads
    /\ br.pre_k_xs.is_fitted

\* C8 (as claimed): a singular inversion or a non-positive determinant inside
\* an objective evaluation does not abort optimise; a singular inversion in a
\* direct calculate_posterior call is raised to the caller.
C8_DegeneracyDoesNotAbortOptimise ==
    /\ (last.op = "optimise" /\ (last.env.singular \/ last.env.invalid))
         => last.outcome = "ok"
    /\ (last.op = "calculate_posterior" /\ last.env.singular)
         => last.outcome = "LinAlgError"

\* C9 (as claimed): whenever pred_one_step or sample_weights returns a
\* result, the stored posterior was computed from the currently stored X, Y
\* and training map.
C9_NoStalePosteriorIsRead ==
    (last.op \in {"pred_one_step", "sample_weights"} /\ last.outcome = "ok")
        => PosteriorOfCurrentData

\* C10 (as claimed): a calculate_posterior that fails with NotFittedError
\* stores no gamma, var_y, mu or S, and in every state gamma and var_y are set
\* only if a posterior computed with them is set too.
C10_HypersOnlyWithPosterior ==
    /\ (last.op = "calculate_posterior" /\ last.outcome = "NotFittedError")
         => HyperState(br) = HyperState(BR(NumRff))
    /\ (HasAttr(br, "gamma") \/ HasAttr(br, "var_y")) => PosteriorOfStoredHypers

====
